---- MODULE Spec2Model ----
(***************************************************************************)
(* A model of bin/leo.py: one run of the command-line dictionary client.   *)
(* The run imports its two libraries, parses the command line, fetches one *)
(* page, walks the first sections of the page, prints a header and a       *)
(* two-column table per enabled section, and exits with a return code.     *)
(*                                                                         *)
(* Text is a sequence of one-character strings.  A page is the part of the *)
(* fetched document the program reads: whether the element with id         *)
(* 'centerColumn' exists and, in document order, the elements of class     *)
(* 'section' below it, each with its data-dz-name attribute and the <tr>   *)
(* elements found under table/tbody, each <tr> a sequence of child cells   *)
(* [lang, text].                                                           *)
(***************************************************************************)
EXTENDS Integers, Sequences, FiniteSets, TLC

VARIABLES
    requests_ok,   \* "import requests" succeeds in this environment
    lxml_ok,       \* "from lxml import html" succeeds in this environment
    remote,        \* what the remote service does with the one HTTP GET
    pc,            \* position of the run
    args,          \* the argparse namespace after parse()
    url,           \* the global URL after URL.format(language, query)
    doc,           \* the page returned by getLeoPage, or NONE
    idx,           \* position of getResults' loop in the section list
    found,         \* getResults' local set "found"
    exc,           \* the exception in flight, or NONE
    stdout,        \* the lines printed so far
    stderr,        \* the messages logged so far
    returncode,    \* the script's variable returncode
    exitstatus,    \* the exit status of the process, or RUNNING
    lang0,         \* language functions: the first argument
    lang,          \* language functions: the current value
    calls          \* language functions: the calls applied to lang0, in order

vars == <<requests_ok, lxml_ok, remote, pc, args, url, doc, idx, found, exc,
          stdout, stderr, returncode, exitstatus, lang0, lang, calls>>

runvars == <<requests_ok, lxml_ok, remote, pc, args, url, doc, idx, found, exc,
             stdout, stderr, returncode, exitstatus>>

langvars == <<lang0, lang, calls>>

----------------------------------------------------------------------------
(* Bounds of the model.                                                    *)

\* the longest section list of a page of the section family
MaxSections == 6

\* the most <tr> elements in the varied table of a page of the table family
MaxRows == 2

\* the most calls applied in a row by the language-function specification
MaxCalls == 2

----------------------------------------------------------------------------
(* Values.                                                                 *)

NONE == "<None>"

RUNNING == "<running>"

SP == " "

NL == "\n"

\* the character U+00A0
NBSP == "<nbsp>"

\* the characters str.strip() and str.split() take as whitespace
Whitespace == {SP, NL, "\t", NBSP}

Rep(c, n) == [i \in 1..n |-> c]

SeqsUpTo(S, n) == UNION {[1..k -> S] : k \in 0..n}

\* max() of a non-empty set of integers
Max(S) == CHOOSE m \in S : \A x \in S : x <= m

----------------------------------------------------------------------------
(* The language table and its two lookups.                                 *)

\* LANGUAGES, in insertion order: <<shortcut, full name>> (the o-umlaut of
\* the second name is written oe)
LANGUAGES ==
    << <<"en", "englisch">>,
       <<"fr", "franzoesisch">>,
       <<"es", "spanisch">>,
       <<"it", "italienisch">>,
       <<"ch", "chinesisch">>,
       <<"ru", "russisch">>,
       <<"pt", "portugiesisch">>,
       <<"pl", "polnisch">> >>

LangKeys == {LANGUAGES[i][1] : i \in DOMAIN LANGUAGES}

LangValues == {LANGUAGES[i][2] : i \in DOMAIN LANGUAGES}

\* LANGUAGES[key]
LangItem(key) ==
    LANGUAGES[CHOOSE i \in DOMAIN LANGUAGES : LANGUAGES[i][1] = key][2]

lang_name(l) ==
    IF l \in LangKeys THEN LangItem(l)
    ELSE IF l \in LangValues THEN l
    ELSE LANGUAGES[1][2]

\* lang_short without its loop over the full names
lang_short_keys_only(l) ==
    IF l \in LangKeys THEN l ELSE LANGUAGES[1][1]

lang_short(l) ==
    IF l \in LangKeys THEN l
    ELSE IF \E i \in DOMAIN LANGUAGES : LANGUAGES[i][2] = l
         THEN LET first == CHOOSE i \in DOMAIN LANGUAGES :
                               /\ LANGUAGES[i][2] = l
                               /\ \A j \in 1..(i - 1) : LANGUAGES[j][2] # l
              IN  LANGUAGES[first][1]
         ELSE LANGUAGES[1][1]

----------------------------------------------------------------------------
(* Text.                                                                   *)

\* str.replace(c, '')
Remove(s, c) == SelectSeq(s, LAMBDA x : x # c)

\* text_content().replace('\xa0', '').replace('\xdf', <sharp s>): the second
\* replacement maps U+00DF to itself
extracttext(td) == Remove(td.text, NBSP)

RECURSIVE lstrip(_)
lstrip(s) ==
    IF s # <<>> /\ Head(s) \in Whitespace THEN lstrip(Tail(s)) ELSE s

RECURSIVE rstrip(_)
rstrip(s) ==
    IF s # <<>> /\ s[Len(s)] \in Whitespace
    THEN rstrip(SubSeq(s, 1, Len(s) - 1))
    ELSE s

\* str.strip()
strip(s) == rstrip(lstrip(s))

\* str.split(): the maximal runs of non-whitespace, in order
RECURSIVE split(_)
split(s) ==
    LET t == lstrip(s) IN
    IF t = <<>> THEN <<>>
    ELSE LET n == IF \E i \in DOMAIN t : t[i] \in Whitespace
                  THEN (CHOOSE i \in DOMAIN t :
                            /\ t[i] \in Whitespace
                            /\ \A j \in 1..(i - 1) : t[j] \notin Whitespace) - 1
                  ELSE Len(t)
         IN  <<SubSeq(t, 1, n)>> \o split(SubSeq(t, n + 1, Len(t)))

\* sep.join(words)
RECURSIVE join(_, _)
join(sep, words) ==
    IF words = <<>> THEN <<>>
    ELSE IF Len(words) = 1 THEN words[1]
    ELSE words[1] \o sep \o join(sep, Tail(words))

\* "{left:<{width}}": left-justified in width, never truncated
ljust(s, width) ==
    IF Len(s) >= width THEN s ELSE s \o Rep(SP, width - Len(s))

----------------------------------------------------------------------------
(* Pages.                                                                  *)

Cell(l, t) == [lang |-> l, text |-> t]

Section(n, r) == [name |-> n, rows |-> r]

Page(c, s) == [centerColumn |-> c, sections |-> s]

Haus == <<"H", "a", "u", "s">>

Wohnungseigentum ==
    <<"W", "o", "h", "n", "u", "n", "g", "s",
      "e", "i", "g", "e", "n", "t", "u", "m">>

\* the table of every section of the section family: two rows for each of
\* the two source languages the runs select
StdRows ==
    << <<Cell("en", <<"a">>), Cell("de", <<"x">>)>>,
       <<Cell("es", <<"c">>), Cell("de", <<"x">>)>>,
       <<Cell("en", <<"a", "b">>), Cell("de", <<"y">>)>>,
       <<Cell("es", <<"c", "d", "e">>), Cell("de", <<"y">>)>> >>

\* the section names of the section family: always enabled, enabled by a
\* flag, never enabled
SectionNames == {"subst", "example", "definition"}

SectionPages ==
    {Page(TRUE, [i \in DOMAIN ns |-> Section(ns[i], StdRows)]) :
        ns \in SeqsUpTo(SectionNames, MaxSections)}

\* the <tr> elements the varied table of the table family is made of
TrPool ==
    { <<Cell("en", <<"a">>), Cell("de", <<"x">>)>>,
      <<Cell("en", <<SP, SP, "t", "o", SP, SP, SP, "r", "u", "n", SP, SP, NL>>),
        Cell("de", <<SP, "z", "u", NBSP, SP, SP, "g", "e", "h", "n", NL>>)>>,
      <<Cell("es", <<"i", NBSP, "r">>), Cell("de", <<"g", "e", "h", "n">>)>>,
      <<Cell("en", <<"a">>), Cell("es", <<"b">>)>>,
      <<Cell("de", <<"x">>), Cell("en", <<"a", "b", "c">>)>>,
      <<Cell("en", <<"a">>)>>,
      <<Cell("en", <<"a">>), Cell("de", <<"x">>), Cell("de", <<"y">>)>> }

\* the section that may follow the varied one
HausSection ==
    Section("adjadv",
            << <<Cell("en", Haus), Cell("de", <<"x">>)>>,
               <<Cell("es", Haus), Cell("de", <<"x">>)>>,
               <<Cell("en", Wohnungseigentum), Cell("de", <<"y">>)>>,
               <<Cell("es", Wohnungseigentum), Cell("de", <<"y">>)>> >>)

\* the names of the varied section; NONE: no data-dz-name attribute
TableNames == {"verb", "phrase", NONE}

TablePages ==
    {Page(TRUE, <<Section(n, r)>> \o tail) :
        n \in TableNames,
        r \in SeqsUpTo(TrPool, MaxRows),
        tail \in {<<>>, <<HausSection>>}}

\* a document without the content column
NoColumnPage == Page(FALSE, <<>>)

Pages == SectionPages \cup TablePages \cup {NoColumnPage}

\* what requests.get(url) can do: return a response with a status code and
\* a body, or raise
Remotes ==
    {[kind |-> "response", status |-> 200, page |-> p] : p \in Pages}
    \cup {[kind |-> "response", status |-> s, page |-> NoColumnPage] :
             s \in {404, 500}}
    \cup {[kind |-> k, status |-> 0, page |-> NoColumnPage] :
             k \in {"Timeout", "ConnectionError", "BaseHTTPError"}}

\* the values parse() gives args.language: the default when LANG is unset,
\* or a full name given with -l
LanguageArgs == {NONE, "spanisch"}

Args ==
    [with_examples : BOOLEAN, with_phrases : BOOLEAN, language : LanguageArgs]

----------------------------------------------------------------------------
(* Exceptions.                                                             *)

\* the classes of the except clauses each raised exception is an instance
\* of: requests' Timeout, HTTPError and ConnectionError derive from
\* RequestException, which derives from IOError; BaseHTTPError is urllib3's
\* HTTPError, which derives from Exception only
Bases(e) ==
    CASE e = "Timeout"         -> {"Timeout", "IOError"}
      [] e = "HTTPError"       -> {"HTTPError", "IOError"}
      [] e = "ConnectionError" -> {"ConnectionError", "IOError"}
      [] e = "BaseHTTPError"   -> {"BaseHTTPError"}
      [] OTHER                 -> {e}

IsInstance(e, class) == class \in Bases(e)

----------------------------------------------------------------------------
(* getLeoPage and getResults.                                              *)

\* getLeoPage without its test of response.ok
ResponseOkAlways(status) == TRUE

\* response.ok: the status code is no client or server error
ResponseOk(status) == status < 400

\* "data" with the entry "example" in the initial dictionary
DataWithExamples(a) ==
    LET base == [n \in {"subst", "verb", "adjadv", "example"} |->
                    CASE n = "subst"   -> "Substantive"
                      [] n = "verb"    -> "Verbs"
                      [] n = "adjadv"  -> "Adjectives/Adverbs"
                      [] n = "example" -> "Examples"]
    IN  IF a.with_phrases THEN ("phrase" :> "Redewendung") @@ base ELSE base

\* the dictionary "data" of getResults: section name -> header label
Data(a) ==
    LET base == [n \in {"subst", "verb", "adjadv"} |->
                    CASE n = "subst"  -> "Substantive"
                      [] n = "verb"   -> "Verbs"
                      [] n = "adjadv" -> "Adjectives/Adverbs"]
        ex   == IF a.with_examples
                THEN ("example" :> "Examples") @@ base ELSE base
    IN  IF a.with_phrases THEN ("phrase" :> "Redewendung") @@ ex ELSE ex

\* the number of dashes of "line"
DashCount == 10

\* the number of sections the loop of getResults takes
SectionLimit == 5

\* div.find_class("section") without the slice
SectionsAll(page) == page.sections

\* div.find_class("section")[:5]
Sections(page) ==
    SubSeq(page.sections, 1,
           IF Len(page.sections) < SectionLimit
           THEN Len(page.sections) ELSE SectionLimit)

\* "\n{0} {1} {0}".format(line, label)
HeaderLine(label) ==
    <<NL>> \o Rep("-", DashCount) \o <<SP, label, SP>> \o Rep("-", DashCount)

HasCell(tr, l) == \E c \in DOMAIN tr : tr[c].lang = l

\* the XPath predicate without its second operand
RowSelectedSourceOnly(tr, short) == HasCell(tr, short)

\* the predicate of the XPath: tr[td[@lang=short] and td[@lang='de']]
RowSelected(tr, short) == HasCell(tr, short) /\ HasCell(tr, "de")

\* section.xpath(...): the positions of the selected rows, in document order
xpath(section, short) ==
    SelectSeq([k \in DOMAIN section.rows |-> k],
              LAMBDA k : RowSelected(section.rows[k], short))

\* t1 of format_as_table
LeftText(tr) == join(<<SP>>, split(strip(extracttext(tr[1]))))

\* t2 of format_as_table
RightText(tr) == extracttext(tr[2])

\* the width of the first row in place of the maximum
FirstWidth(widths) == widths[1]

\* max_width = max(widths)
MaxWidth(widths) == Max({widths[k] : k \in DOMAIN widths})

\* format_as_table on the rows of section sec at the positions trs: the
\* exception raised, or the lines printed.  "c1, c2 = tr.getchildren()"
\* raises ValueError on a row without exactly two children and max() raises
\* ValueError on an empty list, both before the first print
format_as_table(sec, rows, trs) ==
    IF \E k \in DOMAIN trs : Len(rows[trs[k]]) # 2
    THEN [exc |-> "ValueError", lines |-> <<>>]
    ELSE IF trs = <<>>
    THEN [exc |-> "ValueError", lines |-> <<>>]
    ELSE LET widths    == [k \in DOMAIN trs |-> Len(LeftText(rows[trs[k]]))]
             max_width == MaxWidth(widths)
         IN  [exc   |-> NONE,
              lines |-> [k \in DOMAIN trs |->
                            [kind  |-> "row",
                             sec   |-> sec,
                             tr    |-> trs[k],
                             left  |-> ljust(LeftText(rows[trs[k]]), max_width),
                             right |-> RightText(rows[trs[k]])]]]

----------------------------------------------------------------------------
(* The run.                                                                *)

NoArgs == [with_examples |-> FALSE, with_phrases |-> FALSE, language |-> NONE]

InitRun ==
    /\ pc = "import_requests"
    /\ args = NoArgs
    /\ url = NONE
    /\ doc = NONE
    /\ idx = 0
    /\ found = {}
    /\ exc = NONE
    /\ stdout = <<>>
    /\ stderr = <<>>
    /\ returncode = 0
    /\ exitstatus = RUNNING

InitLangIdle ==
    /\ lang0 = NONE
    /\ lang = NONE
    /\ calls = <<>>

Init ==
    /\ requests_ok \in BOOLEAN
    /\ lxml_ok \in BOOLEAN
    /\ remote \in Remotes
    /\ InitRun
    /\ InitLangIdle

\* try: import requests / except ImportError: log.fatal, sys.exit(200)
ImportRequests ==
    /\ pc = "import_requests"
    /\ IF requests_ok
       THEN /\ pc' = "import_lxml"
            /\ UNCHANGED <<stderr, exitstatus>>
       ELSE /\ stderr' = Append(stderr, "ERROR: No requests module found")
            /\ exitstatus' = 200
            /\ pc' = "done"
    /\ UNCHANGED <<requests_ok, lxml_ok, remote, args, url, doc, idx, found,
                   exc, stdout, returncode>>
    /\ UNCHANGED langvars

\* try: from lxml import html / except ImportError: log.fatal, sys.exit(10)
ImportLxml ==
    /\ pc = "import_lxml"
    /\ IF lxml_ok
       THEN /\ pc' = "parse"
            /\ UNCHANGED <<stderr, exitstatus>>
       ELSE /\ stderr' = Append(stderr, "ERROR: no lxml module found")
            /\ exitstatus' = 10
            /\ pc' = "done"
    /\ UNCHANGED <<requests_ok, lxml_ok, remote, args, url, doc, idx, found,
                   exc, stdout, returncode>>
    /\ UNCHANGED langvars

\* args = parse(); language = lang_name(args.language);
\* URL = URL.format(language, args.query); returncode = 0
Main ==
    /\ pc = "parse"
    /\ \E a \in Args :
         /\ args' = a
         /\ url' = <<"http://pda.leo.org/", lang_name(a.language), "-deutsch/">>
    /\ returncode' = 0
    /\ pc' = "getLeoPage"
    /\ UNCHANGED <<requests_ok, lxml_ok, remote, doc, idx, found, exc, stdout,
                   stderr, exitstatus>>
    /\ UNCHANGED langvars

\* doc = getLeoPage(URL)
getLeoPage ==
    /\ pc = "getLeoPage"
    /\ IF remote.kind # "response"
       THEN /\ exc' = remote.kind
            /\ pc' = "except"
            /\ UNCHANGED doc
       ELSE IF ~ResponseOk(remote.status)
       THEN /\ exc' = "HTTPError"
            /\ pc' = "except"
            /\ UNCHANGED doc
       ELSE /\ doc' = remote.page
            /\ pc' = "getResults"
            /\ UNCHANGED exc
    /\ UNCHANGED <<requests_ok, lxml_ok, remote, args, url, idx, found, stdout,
                   stderr, returncode, exitstatus>>
    /\ UNCHANGED langvars

\* getResults(args, doc) up to its loop: html.get_element_by_id raises
\* KeyError when the document has no element with id 'centerColumn'
getResults ==
    /\ pc = "getResults"
    /\ found' = {}
    /\ IF doc.centerColumn
       THEN /\ idx' = 1
            /\ pc' = "section"
            /\ UNCHANGED exc
       ELSE /\ exc' = "KeyError"
            /\ pc' = "except"
            /\ UNCHANGED idx
    /\ UNCHANGED <<requests_ok, lxml_ok, remote, args, url, doc, stdout,
                   stderr, returncode, exitstatus>>
    /\ UNCHANGED langvars

\* one pass of "for section in div.find_class("section")[:5]"
getResultsSection ==
    /\ pc = "section"
    /\ idx <= Len(Sections(doc))
    /\ LET section == Sections(doc)[idx]
           name    == section.name
           data    == Data(args)
       IN  IF name \in DOMAIN data
           THEN LET trs   == xpath(section, lang_short(args.language))
                    table == format_as_table(idx, section.rows, trs)
                    head  == [kind |-> "header", sec |-> idx,
                              text |-> HeaderLine(data[name])]
                IN  /\ found' = found \cup {name}
                    /\ stdout' = Append(stdout, head) \o table.lines
                    /\ IF table.exc = NONE
                       THEN /\ idx' = idx + 1
                            /\ UNCHANGED <<pc, exc>>
                       ELSE /\ exc' = table.exc
                            /\ pc' = "except"
                            /\ UNCHANGED idx
           ELSE /\ idx' = idx + 1
                /\ UNCHANGED <<found, stdout, pc, exc>>
    /\ UNCHANGED <<requests_ok, lxml_ok, remote, args, url, doc, stderr,
                   returncode, exitstatus>>
    /\ UNCHANGED langvars

\* the loop is exhausted and getResults returns
getResultsReturn ==
    /\ pc = "section"
    /\ idx > Len(Sections(doc))
    /\ pc' = "exit"
    /\ UNCHANGED <<requests_ok, lxml_ok, remote, args, url, doc, idx, found,
                   exc, stdout, stderr, returncode, exitstatus>>
    /\ UNCHANGED langvars

\* except requests.exceptions.Timeout
ExceptTimeout ==
    /\ pc = "except"
    /\ IsInstance(exc, "Timeout")
    /\ stderr' = Append(stderr, "Timeout")
    /\ returncode' = 10
    /\ exc' = NONE
    /\ pc' = "exit"
    /\ UNCHANGED <<requests_ok, lxml_ok, remote, args, url, doc, idx, found,
                   stdout, exitstatus>>
    /\ UNCHANGED langvars

\* except requests.exceptions.BaseHTTPError as err
ExceptBaseHTTPError ==
    /\ pc = "except"
    /\ ~IsInstance(exc, "Timeout")
    /\ IsInstance(exc, "BaseHTTPError")
    /\ stderr' = Append(stderr, "Basic HTTP error")
    /\ returncode' = 15
    /\ exc' = NONE
    /\ pc' = "exit"
    /\ UNCHANGED <<requests_ok, lxml_ok, remote, args, url, doc, idx, found,
                   stdout, exitstatus>>
    /\ UNCHANGED langvars

\* except IOError
ExceptIOError ==
    /\ pc = "except"
    /\ ~IsInstance(exc, "Timeout")
    /\ ~IsInstance(exc, "BaseHTTPError")
    /\ IsInstance(exc, "IOError")
    /\ stderr' = Append(stderr, "No translation was found")
    /\ returncode' = 20
    /\ exc' = NONE
    /\ pc' = "exit"
    /\ UNCHANGED <<requests_ok, lxml_ok, remote, args, url, doc, idx, found,
                   stdout, exitstatus>>
    /\ UNCHANGED langvars

\* no except clause matches: the interpreter prints the traceback and the
\* process ends with status 1, sys.exit(returncode) is not reached
Uncaught ==
    /\ pc = "except"
    /\ ~IsInstance(exc, "Timeout")
    /\ ~IsInstance(exc, "BaseHTTPError")
    /\ ~IsInstance(exc, "IOError")
    /\ stderr' = Append(stderr, "Traceback")
    /\ exitstatus' = 1
    /\ pc' = "done"
    /\ UNCHANGED <<requests_ok, lxml_ok, remote, args, url, doc, idx, found,
                   exc, stdout, returncode>>
    /\ UNCHANGED langvars

\* sys.exit(returncode)
SysExit ==
    /\ pc = "exit"
    /\ exitstatus' = returncode
    /\ pc' = "done"
    /\ UNCHANGED <<requests_ok, lxml_ok, remote, args, url, doc, idx, found,
                   exc, stdout, stderr, returncode>>
    /\ UNCHANGED langvars

Next ==
    \/ ImportRequests
    \/ ImportLxml
    \/ Main
    \/ getLeoPage
    \/ getResults
    \/ getResultsSection
    \/ getResultsReturn
    \/ ExceptTimeout
    \/ ExceptBaseHTTPError
    \/ ExceptIOError
    \/ Uncaught
    \/ SysExit

Spec == Init /\ [][Next]_vars

----------------------------------------------------------------------------
(* The language functions on their own.                                    *)

LangInputs == LangKeys \cup LangValues \cup {NONE, "xx", "de", "deutsch", "EN"}

InitLang ==
    /\ requests_ok = TRUE
    /\ lxml_ok = TRUE
    /\ remote = [kind |-> "Timeout", status |-> 0, page |-> NoColumnPage]
    /\ InitRun
    /\ lang0 \in LangInputs
    /\ lang = lang0
    /\ calls = <<>>

CallLangName ==
    /\ Len(calls) < MaxCalls
    /\ lang' = lang_name(lang)
    /\ calls' = Append(calls, "lang_name")
    /\ UNCHANGED lang0
    /\ UNCHANGED runvars

CallLangShort ==
    /\ Len(calls) < MaxCalls
    /\ lang' = lang_short(lang)
    /\ calls' = Append(calls, "lang_short")
    /\ UNCHANGED lang0
    /\ UNCHANGED runvars

NextLang == CallLangName \/ CallLangShort

SpecLang == InitLang /\ [][NextLang]_vars

----------------------------------------------------------------------------
(* Properties.                                                             *)

DepsOk == requests_ok /\ lxml_ok

Headers == {i \in DOMAIN stdout : stdout[i].kind = "header"}

Rows == {i \in DOMAIN stdout : stdout[i].kind = "row"}

\* the <tr> element a printed row was made from
TrOf(line) == remote.page.sections[line.sec].rows[line.tr]

Range(s) == {s[i] : i \in DOMAIN s}

\* C1: when the fetch gets an HTTP 404 response, nothing is ever written to
\* standard output, and the run ends with exit status 20 and the "no
\* translation" message on standard error.
C1_NotFound ==
    (DepsOk /\ remote.kind = "response" /\ remote.status = 404) =>
        /\ stdout = <<>>
        /\ pc = "done" =>
              /\ exitstatus = 20
              /\ stderr = <<"No translation was found">>

C1_Witness ==
    /\ pc = "done"
    /\ DepsOk
    /\ remote.kind = "response"
    /\ remote.status = 404
    /\ exitstatus = 20

\* the outcome a finished run reports on standard error
ReportedOutcome ==
    IF stderr = <<>> THEN "success"
    ELSE CASE stderr[1] = "ERROR: No requests module found" -> "missing dependency"
           [] stderr[1] = "ERROR: no lxml module found"     -> "missing dependency"
           [] stderr[1] = "Timeout"                         -> "timeout"
           [] stderr[1] = "Basic HTTP error"                -> "transport error"
           [] stderr[1] = "No translation was found"        -> "not found"
           [] OTHER                                         -> "unhandled"

\* the outcomes that use an exit status
OutcomesOf(status) ==
    (IF status = 0 THEN {"success"} ELSE {})
    \cup (IF status \in {200, 10} THEN {"missing dependency"} ELSE {})
    \cup (IF status = 10 THEN {"timeout"} ELSE {})
    \cup (IF status = 15 THEN {"transport error"} ELSE {})
    \cup (IF status = 20 THEN {"not found"} ELSE {})
    \cup (IF status = 1 THEN {"unhandled"} ELSE {})

\* C2: the exit statuses are pairwise distinct per outcome: the status of a
\* finished run belongs to one outcome only, the one the run reports, and
\* only success has status 0.
C2_DistinctExitCodes ==
    pc = "done" =>
        /\ ReportedOutcome \in OutcomesOf(exitstatus)
        /\ Cardinality(OutcomesOf(exitstatus)) = 1
        /\ (exitstatus = 0) <=> (ReportedOutcome = "success")

\* C3: every fetch failure has its own class: a timeout exits with 10, a
\* non-success response other than 404 or a connection failure exits with
\* 15 and is not reported as "no translation", and only a 404 exits with 20.
C3_FailureClasses ==
    (pc = "done" /\ DepsOk) =>
        /\ remote.kind = "Timeout" => exitstatus = 10
        /\ (\/ remote.kind = "ConnectionError"
            \/ remote.kind = "response" /\ remote.status \in {500}) =>
              /\ exitstatus = 15
              /\ "No translation was found" \notin Range(stderr)
        /\ exitstatus = 20 =>
              remote.kind = "response" /\ remote.status = 404

\* the category set the flags enable
EnabledNames ==
    {"subst", "verb", "adjadv"}
    \cup (IF args.with_examples THEN {"example"} ELSE {})
    \cup (IF args.with_phrases THEN {"phrase"} ELSE {})

\* C4: no header is ever printed for a section whose data-dz-name is
\* outside the enabled category set, and without --with-examples no
\* "Examples" header is printed.
C4_OnlyEnabledHeaders ==
    \A i \in Headers :
        /\ remote.page.sections[stdout[i].sec].name \in EnabledNames
        /\ ~args.with_examples => "Examples" \notin Range(stdout[i].text)
        /\ ~args.with_phrases => "Redewendung" \notin Range(stdout[i].text)

C4_Witness ==
    /\ pc = "done"
    /\ exitstatus = 0
    /\ ~args.with_examples
    /\ Headers # {}
    /\ \E k \in DOMAIN Sections(remote.page) :
          Sections(remote.page)[k].name = "example"

\* C5: every printed row is a row of its section that has both a cell for
\* the requested source-language code and a cell for 'de'.
C5_RowsHaveBothCells ==
    \A i \in Rows :
        /\ stdout[i].sec \in DOMAIN remote.page.sections
        /\ stdout[i].tr \in DOMAIN remote.page.sections[stdout[i].sec].rows
        /\ \E c \in DOMAIN TrOf(stdout[i]) :
              TrOf(stdout[i])[c].lang = lang_short(args.language)
        /\ \E c \in DOMAIN TrOf(stdout[i]) : TrOf(stdout[i])[c].lang = "de"

C5_Witness ==
    /\ pc = "done"
    /\ exitstatus = 0
    /\ args.language = "spanisch"
    /\ \E i \in Rows :
          \E k \in DOMAIN remote.page.sections[stdout[i].sec].rows :
              LET tr == remote.page.sections[stdout[i].sec].rows[k]
              IN  /\ \E c \in DOMAIN tr : tr[c].lang = "es"
                  /\ \A c \in DOMAIN tr : tr[c].lang # "de"

\* a text with every whitespace run collapsed to one space, no U+00A0 and
\* no leading or trailing whitespace
IsNormalised(s) ==
    /\ NBSP \notin Range(s)
    /\ s # <<>> => (s[1] \notin Whitespace /\ s[Len(s)] \notin Whitespace)
    /\ \A i \in DOMAIN s :
          s[i] \in Whitespace => (s[i] = SP /\ s[i - 1] \notin Whitespace)

\* a printed left column without its padding
RECURSIVE Unpadded(_)
Unpadded(s) ==
    IF s # <<>> /\ s[Len(s)] = SP THEN Unpadded(SubSeq(s, 1, Len(s) - 1)) ELSE s

\* C6: the text of every printed cell, left and right alike, has its
\* whitespace runs collapsed to one space, U+00A0 removed and no leading or
\* trailing whitespace.
C6_CellsNormalised ==
    \A i \in Rows :
        /\ IsNormalised(Unpadded(stdout[i].left))
        /\ IsNormalised(stdout[i].right)

\* the rows printed for the section of a printed row
SameSection(i) == {j \in Rows : stdout[j].sec = stdout[i].sec}

\* C7: within one printed section every left column is the row's
\* normalised left text, left-justified and padded with spaces to the same
\* width, the greatest length of the normalised left texts of that
\* section's printed rows.
C7_UniformWidth ==
    \A i \in Rows :
        LET t1    == LeftText(TrOf(stdout[i]))
            width == Max({Len(LeftText(TrOf(stdout[j]))) : j \in SameSection(i)})
        IN  /\ Len(stdout[i].left) = width
            /\ SubSeq(stdout[i].left, 1, Len(t1)) = t1
            /\ \A k \in (Len(t1) + 1)..width : stdout[i].left[k] = SP

C7_Witness ==
    /\ pc = "done"
    /\ exitstatus = 0
    /\ \E i, j \in Rows :
          /\ stdout[i].sec = stdout[j].sec
          /\ stdout[i].left = Haus \o Rep(SP, 12)
          /\ stdout[j].left = Wohnungseigentum
    /\ \E i \in Rows : Len(stdout[i].left) = 6

\* C8: the language lookups round-trip on the supported codes and names,
\* and fall back to the first table entry on everything else.
C8_LangRoundTrip ==
    LET codes == {"en", "fr", "es", "it", "ch", "ru", "pt", "pl"}
        names == {"englisch", "franzoesisch", "spanisch", "italienisch",
                  "chinesisch", "russisch", "portugiesisch", "polnisch"}
    IN  /\ (lang0 \in codes /\ calls = <<"lang_name", "lang_short">>) =>
              lang = lang0
        /\ (lang0 \in names /\ calls = <<"lang_short", "lang_name">>) =>
              lang = lang0
        /\ (lang0 \in codes /\ calls = <<"lang_name">>) => lang \in names
        /\ (lang0 \in names /\ calls = <<"lang_short">>) => lang \in codes
        /\ (lang0 \notin codes \cup names /\ calls = <<"lang_name">>) =>
              lang = "englisch"
        /\ (lang0 \notin codes \cup names /\ calls = <<"lang_short">>) =>
              lang = "en"

C8_Witness ==
    /\ lang0 = "pl"
    /\ calls = <<"lang_name", "lang_short">>
    /\ lang = "pl"

\* an enabled section among those the loop takes, none of whose rows has
\* both cells
EmptySelection(k) ==
    /\ Sections(remote.page)[k].name \in EnabledNames
    /\ \A r \in DOMAIN Sections(remote.page)[k].rows :
          LET tr == Sections(remote.page)[k].rows[r]
          IN  \/ \A c \in DOMAIN tr : tr[c].lang # lang_short(args.language)
              \/ \A c \in DOMAIN tr : tr[c].lang # "de"

\* C9: a fetched page of two-cell rows in which an enabled section has no
\* row with both cells is no error: the run processes the remaining
\* sections and exits with status 0.
C9_EmptySectionIsNoError ==
    (/\ pc = "done"
     /\ DepsOk
     /\ remote.kind = "response"
     /\ remote.status = 200
     /\ remote.page.centerColumn
     /\ \A k \in DOMAIN Sections(remote.page) :
           \A r \in DOMAIN Sections(remote.page)[k].rows :
               Len(Sections(remote.page)[k].rows[r]) = 2
     /\ \E k \in DOMAIN Sections(remote.page) : EmptySelection(k)) =>
        /\ exitstatus = 0
        /\ \A k \in DOMAIN Sections(remote.page) :
              Sections(remote.page)[k].name \in EnabledNames =>
                  \E i \in Headers : stdout[i].sec = k

\* C10: the output is an order-preserving selection of the first five
\* sections: headers in page order, each header (10 dashes, label, 10
\* dashes) before the rows of its section, the rows in page order and
\* before the next header.
C10_PageOrder ==
    /\ \A i \in DOMAIN stdout : stdout[i].sec \in 1..5
    /\ \A i, j \in DOMAIN stdout :
          i < j =>
              \/ stdout[i].sec < stdout[j].sec
              \/ /\ stdout[i].sec = stdout[j].sec
                 /\ stdout[j].kind = "row"
                 /\ stdout[i].kind = "row" => stdout[i].tr < stdout[j].tr
    /\ \A i \in Rows : \E h \in Headers : h < i /\ stdout[h].sec = stdout[i].sec
    /\ \A i \in Headers :
          /\ Len(stdout[i].text) = 24
          /\ \A k \in (2..11) \cup (15..24) : stdout[i].text[k] = "-"
          /\ stdout[i].text[12] = SP
          /\ stdout[i].text[14] = SP

C10_Witness ==
    /\ pc = "done"
    /\ exitstatus = 0
    /\ Len(remote.page.sections) > 5
    /\ remote.page.sections[6].name = "subst"
    /\ \E i, j \in Headers : stdout[i].sec = 2 /\ stdout[j].sec = 5
    /\ \E i, j \in Rows : i < j /\ stdout[i].sec = stdout[j].sec

====
